---- MODULE Spec2Model ----
(***************************************************************************)
(* Model of lambda/weekly_build_scheduler.py: the weekly reconciliation of *)
(* Bitbucket pipeline schedules against recent build activity.             *)
(*                                                                         *)
(* The program's own state is the position of process_services in its     *)
(* loop and its locals; the remote state it reads and writes is the list   *)
(* of pipeline schedules of every repository.  Every HTTP response is an   *)
(* input: "ok" (JSON with 'values', or 204 for DELETE), "error" (JSON with *)
(* an 'error' envelope) or "nonjson" (a body json.loads rejects).          *)
(***************************************************************************)
EXTENDS Integers, Sequences, FiniteSets, TLC

VARIABLES
    schedules,        \* remote: repo_slug -> list of pipeline schedules
    repositories,     \* event["repositories"]
    override,         \* event["override"]
    dry_run,          \* event["dry_run"]
    test,             \* event["test"]
    active_services,  \* process_services: the list being iterated
    i,                \* process_services: 1-based position in active_services
    pc,               \* "idle" | "paging" | "loop" | "reconcile" | "done" | "aborted"
    in_development,   \* process_services: local of line 396
    last,             \* what the most recent step did (requests, logs, result)
    cds,              \* check_development_status applied on its own
    cat,              \* get_active_services: its locals, the pages it read
    run               \* two passes against a remote that stays as it is

vars == << schedules, repositories, override, dry_run, test, active_services,
           i, pc, in_development, last, cds, cat, run >>

---------------------------------------------------------------------------
(* Bounds of the model *)

MaxInitSchedules == 2   \* schedules the workspace holds before the run
MaxRepoList == 2        \* length of event["repositories"]
MaxOverride == 1        \* length of event["override"]
MaxHistory == 2         \* pipelines on the page get_latest_pipelines returns
MaxPipelines == 3       \* pipelines given to check_development_status alone
MaxTick == 1            \* clock advance between two readings of line 239
MaxCatalogEntries == 2  \* service definitions the catalog holds

---------------------------------------------------------------------------
(* Program constants and the values the inputs are drawn from *)

SCHEDULE == "0 0 13 ? * 7 *"   \* the fixed cron pattern
OTHER_CRON == "0 0 0 * * ? *"  \* a cron pattern that is not SCHEDULE
TestWindow == 2                \* timedelta(minutes=2), in minutes
WeekWindow == 10080            \* timedelta(weeks=1), in minutes
Now == 20000                   \* first reading of the clock, in minutes

NoneBranch == "None"           \* Python's None where a branch name is expected

Repos == {"svc-a", "svc-b"}
Branches == {"main", "master"}
RespKinds == {"ok", "error", "nonjson"}
Triggers == {"SCHEDULE", "PUSH"}
Ages == {0, 2, 3, 10080, 10081}
Patterns == {"^vc", "c.a$"}

\* The characters of the identifiers and patterns above.
Chars(s) ==
    CASE s = "svc-a"  -> <<"s", "v", "c", "-", "a">>
      [] s = "svc-b"  -> <<"s", "v", "c", "-", "b">>
      [] s = "^vc"    -> <<"^", "v", "c">>
      [] s = "c.a$"   -> <<"c", ".", "a", "$">>

\* Optional values: Python's None or a list.
None == [none |-> TRUE, val |-> <<>>]
Some(v) == [none |-> FALSE, val |-> v]
\* Python's `not x` for x a list or None (`x is None` is the narrower test).
IsNone(x) == x.none

Falsy(x) == x.none \/ x.val = <<>>

\* All sequences over S of length at most n.
SeqUpTo(S, n) == UNION {[1..k -> S] : k \in 0..n}

---------------------------------------------------------------------------
(* match_override: re.compile(pattern).search(repo_slug) *)

\* The compiled pattern: "^" first anchors at the start, "$" last anchors at
\* the end, "." matches any character, anything else matches itself.
Compile(pattern) ==
    LET cs == Chars(pattern)
        a == Len(cs) > 0 /\ cs[1] = "^"
        cs1 == IF a THEN SubSeq(cs, 2, Len(cs)) ELSE cs
        e == Len(cs1) > 0 /\ cs1[Len(cs1)] = "$"
        cs2 == IF e THEN SubSeq(cs1, 1, Len(cs1) - 1) ELSE cs1
    IN [start |-> a, end |-> e, atoms |-> cs2]

\* The compiled pattern matches s beginning at position pos.
MatchAt(re, s, pos) ==
    /\ pos + Len(re.atoms) - 1 <= Len(s)
    /\ \A k \in 1..Len(re.atoms) :
          re.atoms[k] = "." \/ re.atoms[k] = s[pos + k - 1]
    /\ re.end => pos + Len(re.atoms) - 1 = Len(s)

\* The positions at which a search may begin; re.match would try the first only.
SearchStartsPrefixOnly(re, s) == {1}

SearchStarts(re, s) == IF re.start THEN {1} ELSE 1..(Len(s) + 1)

\* pattern.search(repo_slug) is not None
Search(pattern, repo_slug) ==
    LET re == Compile(pattern)
        s == Chars(repo_slug)
    IN \E pos \in SearchStarts(re, s) : MatchAt(re, s, pos)

RECURSIVE match_override_from(_, _, _)
match_override_from(repo_slug, patterns, k) ==
    IF k > Len(patterns) THEN FALSE
    ELSE IF Search(patterns[k], repo_slug) THEN TRUE
    ELSE match_override_from(repo_slug, patterns, k + 1)

match_override(repo_slug, patterns) == match_override_from(repo_slug, patterns, 1)

---------------------------------------------------------------------------
(* check_development_status *)

\* today - creation_date <= recent
IsRecent(today, creation_date, recent) == today - creation_date <= recent

\* pipeline["trigger"]["name"] != "SCHEDULE" or recent_pipelines > 1
\* (the variant counts the first recent pipeline already)
ShowsDevelopmentAnyRecent(pipeline, recent_pipelines) ==
    pipeline.trigger # "SCHEDULE" \/ recent_pipelines >= 1

ShowsDevelopment(pipeline, recent_pipelines) ==
    pipeline.trigger # "SCHEDULE" \/ recent_pipelines > 1

Window(t) == IF t THEN TestWindow ELSE WeekWindow

\* The loop of lines 233-253 from the k-th pipeline on; todays[k] is the clock
\* reading of line 239 in the k-th iteration.
\* (the variant leaves the loop at the first pipeline outside the window, as
\* if nothing after it in the list could be inside)
RECURSIVE cds_loop_until_old(_, _, _, _, _)
cds_loop_until_old(pipelines, todays, recent, k, recent_pipelines) ==
    IF k > Len(pipelines) THEN FALSE
    ELSE IF IsRecent(todays[k], pipelines[k].created_on, recent)
         THEN IF ShowsDevelopment(pipelines[k], recent_pipelines + 1)
              THEN TRUE
              ELSE cds_loop_until_old(pipelines, todays, recent, k + 1,
                                      recent_pipelines + 1)
         ELSE FALSE

RECURSIVE cds_loop(_, _, _, _, _)
cds_loop(pipelines, todays, recent, k, recent_pipelines) ==
    IF k > Len(pipelines) THEN FALSE
    ELSE IF IsRecent(todays[k], pipelines[k].created_on, recent)
         THEN IF ShowsDevelopment(pipelines[k], recent_pipelines + 1)
              THEN TRUE
              ELSE cds_loop(pipelines, todays, recent, k + 1, recent_pipelines + 1)
         ELSE cds_loop(pipelines, todays, recent, k + 1, recent_pipelines)

check_development_status(pipelines, todays, t) ==
    cds_loop(pipelines, todays, Window(t), 1, 0)

\* The clock readings of one call: the clock advances by tick between two.
Todays(n, tick) == [k \in 1..n |-> Now + (k - 1) * tick]

\* The clock readings of a call that starts delay after Now.
TodaysLater(delay, n, tick) == [k \in 1..n |-> Now + delay + (k - 1) * tick]

PipelineRecords == [created_on : {Now - a : a \in Ages}, trigger : Triggers]

\* The page the build host returns is sorted by -created_on.
Sorted(pipelines) ==
    \A k \in 1..(Len(pipelines) - 1) :
        pipelines[k].created_on >= pipelines[k + 1].created_on

Histories == {h \in SeqUpTo(PipelineRecords, MaxHistory) : Sorted(h)}

---------------------------------------------------------------------------
(* The remote schedules and the responses of the build host *)

ScheduleKinds ==
    {[cron_pattern |-> SCHEDULE, pattern |-> "main"],
     [cron_pattern |-> OTHER_CRON, pattern |-> "main"]}

\* A list of schedules of the given kinds, with the uuids the host gave them.
WithUuids(kinds) ==
    [k \in 1..Len(kinds) |->
        [uuid |-> k, cron_pattern |-> kinds[k].cron_pattern,
         pattern |-> kinds[k].pattern, enabled |-> TRUE]]

RECURSIVE SumLen(_, _)
SumLen(f, S) ==
    IF S = {} THEN 0
    ELSE LET r == CHOOSE x \in S : TRUE IN Len(f[r]) + SumLen(f, S \ {r})

\* What the workspace may hold before the run.
InitSchedules ==
    {f \in [Repos -> {WithUuids(ks) : ks \in SeqUpTo(ScheduleKinds, MaxInitSchedules)}] :
        SumLen(f, Repos) <= MaxInitSchedules}

\* The 'values' of GET refs/branches?q=name="main" OR name="master"
BranchLists == {<<>>, <<"main">>, <<"master", "main">>}

BranchResponses ==
    {[kind |-> "ok", values |-> v] : v \in BranchLists}
        \cup {[kind |-> k, values |-> <<>>] : k \in {"error", "nonjson"}}

\* schedule['cron_pattern'] == SCHEDULE and
\* schedule['target']['selector']['pattern'] == default_branch
\* (the variant compares the cron pattern with != instead of ==)
MatchesOtherCron(schedule, default_branch) ==
    schedule.cron_pattern # SCHEDULE /\ schedule.pattern = default_branch

\* (the variant leaves out the comparison of the target branch)
MatchesAnyBranch(schedule, default_branch) ==
    schedule.cron_pattern = SCHEDULE

Matches(schedule, default_branch) ==
    schedule.cron_pattern = SCHEDULE /\ schedule.pattern = default_branch

\* The uuid the host gives a new schedule: one no schedule of the list has.
NewUuid(list) ==
    CHOOSE u \in 1..(Len(list) + 1) :
        /\ \A k \in 1..Len(list) : list[k].uuid # u
        /\ \A v \in 1..(u - 1) : \E k \in 1..Len(list) : list[k].uuid = v

\* What one call of a function did: the requests it sent, the lines it logged,
\* the exception it raised ("" for none), its return value (ret), the
\* repository's schedules afterwards (sched) and the uuid in the url of the
\* DELETE it sent (target, 0 when it sent none).
Outcome(calls, logs, raised, ret, sched) ==
    [calls |-> calls, logs |-> logs, raised |-> raised, ret |-> ret, sched |-> sched,
     target |-> 0]

\* The call sent DELETE .../pipelines_config/schedules/{uuid}
Targeting(o, uuid) == [o EXCEPT !.target = uuid]

---------------------------------------------------------------------------
(* get_default_branch, get_schedules *)

get_default_branch(response) ==
    IF response.kind # "ok"
    THEN Outcome(<<"GET branches">>, <<"Failed to get default branch name">>,
                 "", NoneBranch, <<>>)
    ELSE IF response.values = <<>>
    THEN \* branches[0] of an empty list
         Outcome(<<"GET branches">>, <<>>, "IndexError", NoneBranch, <<>>)
    ELSE Outcome(<<"GET branches">>, <<>>, "", response.values[1], <<>>)

get_schedules(kind, remote) ==
    IF kind # "ok"
    THEN Outcome(<<"GET schedules">>, <<"Failed to retrieve scheduled pipelines">>,
                 "", None, remote)
    ELSE Outcome(<<"GET schedules">>, <<>>, "", Some(remote), remote)

---------------------------------------------------------------------------
(* delete_schedule *)

\* if dry_run: log the eligibility and return (the variant never returns)
DryRunIgnored(dry) == FALSE

ReturnsForDryRun(dry) == dry

\* The position of the first schedule the loop of line 120 matches, 0 for none.
\* A scan that finds nothing.
FirstMatchNever(list, default_branch, k) == 0

\* A scan that keeps the last match instead of leaving the loop at the first.
LastMatch(list, default_branch, k) ==
    LET hits == {j \in k..Len(list) : Matches(list[j], default_branch)}
    IN IF hits = {} THEN 0 ELSE CHOOSE j \in hits : \A m \in hits : m <= j

RECURSIVE FirstMatch(_, _, _)
FirstMatch(list, default_branch, k) ==
    IF k > Len(list) THEN 0
    ELSE IF Matches(list[k], default_branch) THEN k
    ELSE FirstMatch(list, default_branch, k + 1)

\* The host's list once DELETE .../schedules/{uuid} succeeded.
Removed(remote, uuid) == SelectSeq(remote, LAMBDA s : s.uuid # uuid)

delete_schedule(dry, remote, br, schKind, delKind) ==
    LET db == get_default_branch(br)
        ss == get_schedules(schKind, remote)
        logs0 == <<"Deleting scheduled pipeline">> \o db.logs
        calls1 == db.calls \o ss.calls
        logs1 == logs0 \o ss.logs
        k == FirstMatch(ss.ret.val, db.ret, 1)
    IN  IF db.raised # ""
        THEN Outcome(db.calls, logs0, db.raised, db.ret, remote)
        ELSE IF ss.ret.none
        THEN Outcome(calls1,
                     logs1 \o <<IF dry THEN "" ELSE "Failed to delete scheduled pipeline.">>,
                     "", db.ret, remote)
        ELSE IF ReturnsForDryRun(dry)
        THEN Outcome(calls1, logs1 \o <<"Eligible for Schedule Deletion">>,
                     "", db.ret, remote)
        ELSE IF k = 0
        THEN Outcome(calls1, logs1 \o <<"Scheduled pipeline deleted">>,
                     "", db.ret, remote)
        ELSE IF delKind = "ok"
        THEN Targeting(Outcome(calls1 \o <<"DELETE schedule">>,
                               logs1 \o <<"Scheduled pipeline deleted">>,
                               "", db.ret, Removed(remote, ss.ret.val[k].uuid)),
                       ss.ret.val[k].uuid)
        ELSE Targeting(Outcome(calls1 \o <<"DELETE schedule">>,
                               logs1 \o <<"Failed to delete scheduled pipeline">>,
                               "", db.ret, remote),
                       ss.ret.val[k].uuid)

---------------------------------------------------------------------------
(* create_schedule *)

\* The host's list once POST .../schedules succeeded.
Added(remote, default_branch) ==
    Append(remote, [uuid |-> NewUuid(remote), cron_pattern |-> SCHEDULE,
                    pattern |-> default_branch, enabled |-> TRUE])

\* (the variant tests dry_run before it looks for the schedule in the list)
create_schedule_dry_first(dry, remote, br, schKind, postKind) ==
    LET db == get_default_branch(br)
        ss == get_schedules(schKind, remote)
        logs0 == <<"Creating scheduled pipeline">> \o db.logs
        calls1 == db.calls \o ss.calls
        logs1 == logs0 \o ss.logs
    IN  IF db.raised # ""
        THEN Outcome(db.calls, logs0, db.raised, db.ret, remote)
        ELSE IF ss.ret.none
        THEN \* for schedule in None
             Outcome(calls1, logs1, "TypeError", db.ret, remote)
        ELSE IF ReturnsForDryRun(dry)
        THEN Outcome(calls1, logs1 \o <<"Eligible for Scheduling">>, "", db.ret, remote)
        ELSE IF \E k \in 1..Len(ss.ret.val) : Matches(ss.ret.val[k], db.ret)
        THEN Outcome(calls1,
                     logs1 \o <<"Failed to create scheduled pipeline: this schedule already exists.">>,
                     "", db.ret, remote)
        ELSE IF postKind = "ok"
        THEN Outcome(calls1 \o <<"POST schedule">>,
                     logs1 \o <<"Scheduled pipeline created">>,
                     "", db.ret, Added(remote, db.ret))
        ELSE Outcome(calls1 \o <<"POST schedule">>,
                     logs1 \o <<"Failed to create scheduled pipeline">>,
                     "", db.ret, remote)

create_schedule(dry, remote, br, schKind, postKind) ==
    LET db == get_default_branch(br)
        ss == get_schedules(schKind, remote)
        logs0 == <<"Creating scheduled pipeline">> \o db.logs
        calls1 == db.calls \o ss.calls
        logs1 == logs0 \o ss.logs
    IN  IF db.raised # ""
        THEN Outcome(db.calls, logs0, db.raised, db.ret, remote)
        ELSE IF ss.ret.none
        THEN \* for schedule in None
             Outcome(calls1, logs1, "TypeError", db.ret, remote)
        ELSE IF \E k \in 1..Len(ss.ret.val) : Matches(ss.ret.val[k], db.ret)
        THEN Outcome(calls1,
                     logs1 \o <<"Failed to create scheduled pipeline: this schedule already exists.">>,
                     "", db.ret, remote)
        ELSE IF ReturnsForDryRun(dry)
        THEN Outcome(calls1, logs1 \o <<"Eligible for Scheduling">>, "", db.ret, remote)
        ELSE IF postKind = "ok"
        THEN Outcome(calls1 \o <<"POST schedule">>,
                     logs1 \o <<"Scheduled pipeline created">>,
                     "", db.ret, Added(remote, db.ret))
        ELSE Outcome(calls1 \o <<"POST schedule">>,
                     logs1 \o <<"Failed to create scheduled pipeline">>,
                     "", db.ret, remote)

\* The host accepts no schedule without a target branch.
PostKinds(br) ==
    IF get_default_branch(br).ret = NoneBranch THEN RespKinds \ {"ok"} ELSE RespKinds

---------------------------------------------------------------------------
(* get_latest_pipelines *)

PipelineResponses ==
    {[kind |-> "ok", values |-> h] : h \in Histories}
        \cup {[kind |-> k, values |-> <<>>] : k \in {"error", "nonjson"}}

get_latest_pipelines(response) ==
    IF response.kind # "ok"
    THEN Outcome(<<"GET pipelines">>, <<"Failed to get latest pipelines">>, "", None, <<>>)
    ELSE Outcome(<<"GET pipelines">>, <<>>, "", Some(response.values), <<>>)

---------------------------------------------------------------------------
(* lambda_handler, process_services *)

RepoLists == SeqUpTo(Repos, MaxRepoList) \ {<<>>}
Overrides == {None} \cup {Some(ps) : ps \in SeqUpTo(Patterns, MaxOverride)}

\* What a step of process_services records of itself: the function it ran
\* (op), for which repository, the requests sent, the lines logged, the
\* exception raised, the default branch resolved, what get_latest_pipelines
\* returned ("None", "empty" or "some"), what the branch query answered,
\* whether the schedule list was fetched, the repository's schedules
\* before the step, and the uuid the DELETE of the step named.
Step(op, repo, o, history, branches, fetched, before) ==
    [op |-> op, repo |-> repo, calls |-> o.calls, logs |-> o.logs,
     raised |-> o.raised, branch |-> o.ret, history |-> history,
     branches |-> branches, fetched |-> fetched, before |-> before,
     target |-> o.target]

Quiet(logs) == Outcome(<<>>, logs, "", NoneBranch, <<>>)

NoCds == [pipelines |-> <<>>, todays |-> <<>>, test |-> FALSE, result |-> FALSE]

\* get_active_services before its first request: page and services as lines
\* 332 and 337 set them, no page asked for (asked), none received (seen), the
\* loop not left (stop).
NoCat == [page |-> 0, services |-> <<>>, asked |-> <<>>, seen |-> <<>>, stop |-> ""]

\* No pass has started.
NoRun == [pass |-> 0, start |-> <<>>, after |-> <<>>, remote |-> <<>>]

Init ==
    /\ schedules \in InitSchedules
    /\ repositories = None
    /\ override = None
    /\ dry_run = FALSE
    /\ test = FALSE
    /\ active_services = <<>>
    /\ i = 0
    /\ pc = "idle"
    /\ in_development = FALSE
    /\ last = Step("none", "", Quiet(<<>>), "-", None, "-", <<>>)
    /\ cds = NoCds
    /\ cat = NoCat
    /\ run = NoRun

\* lambda_handler(event, _) up to the loop of process_services (lines 413-425,
\* 375-380), for an event that names the repositories.
lambda_handler ==
    /\ pc = "idle"
    /\ \E repos \in RepoLists, ov \in Overrides, d \in BOOLEAN, t \in BOOLEAN :
          /\ repositories' = Some(repos)
          /\ override' = ov
          /\ dry_run' = d
          /\ test' = t
          /\ active_services' = repos
    /\ i' = 1
    /\ pc' = "loop"
    /\ last' = Step("start", "", Quiet(<<"Processing services...">>), "-", None, "-", <<>>)
    /\ UNCHANGED <<schedules, in_development, cds, cat, run>>

service == active_services[i]

InLoop == pc = "loop" /\ i <= Len(active_services)

\* if override: if match_override(service, override)
Overridden == ~Falsy(override) /\ match_override(service, override.val)

\* Lines 383-388: the service is overridden.
SkipOverridden ==
    /\ InLoop
    /\ Overridden
    /\ i' = i + 1
    /\ last' = Step("overridden", service,
                    Quiet(<<"Processing service", "overridden. Skipping...">>),
                    "-", None, "-", schedules[service])
    /\ UNCHANGED <<schedules, repositories, override, dry_run, test,
                   active_services, pc, in_development, cds, cat, run>>

\* What lines 390-396 can make of the build host's answer, for either value of
\* the test flag: "skip" (line 392) or the verdict of line 396.
Classified(response, tick, t) ==
    LET o == get_latest_pipelines(response) IN
    [kind |-> response.kind,
     history |-> IF o.ret.none THEN "None"
                 ELSE IF Len(o.ret.val) = 0 THEN "empty" ELSE "some",
     skip |-> Falsy(o.ret),
     verdict |-> IF Falsy(o.ret) THEN FALSE
                 ELSE check_development_status(o.ret.val,
                                               Todays(Len(o.ret.val), tick), t)]

Fetches ==
    [t \in BOOLEAN |->
        {Classified(response, tick, t) :
            response \in PipelineResponses, tick \in 0..MaxTick}]

\* Lines 383-394: no pipelines (None or an empty page).
SkipNoPipelines ==
    /\ InLoop
    /\ ~Overridden
    /\ \E f \in Fetches[test] :
          /\ f.skip
          /\ last' = Step("skipped", service,
                          Outcome(<<"GET pipelines">>,
                                  <<"Processing service">>
                                      \o (IF f.kind = "ok" THEN <<>>
                                          ELSE <<"Failed to get latest pipelines">>)
                                      \o <<"No pipelines found. Skipping...">>,
                                  "", NoneBranch, <<>>),
                          f.history, None, "-", schedules[service])
    /\ i' = i + 1
    /\ UNCHANGED <<schedules, repositories, override, dry_run, test,
                   active_services, pc, in_development, cds, cat, run>>

\* Lines 383-396: the pipelines are fetched and classified.
Classify ==
    /\ InLoop
    /\ ~Overridden
    /\ \E f \in Fetches[test] :
          /\ ~f.skip
          /\ in_development' = f.verdict
          /\ last' = Step("classified", service,
                          Outcome(<<"GET pipelines">>, <<"Processing service">>,
                                  "", NoneBranch, <<>>),
                          f.history, None, "-", schedules[service])
    /\ pc' = "reconcile"
    /\ UNCHANGED <<schedules, repositories, override, dry_run, test,
                   active_services, i, cds, cat, run>>

\* How process_services goes on after create_schedule or delete_schedule: an
\* exception leaves the loop and the function.
Continue(op, o, br, schKind) ==
    /\ schedules' = [schedules EXCEPT ![service] = o.sched]
    /\ last' = Step(op, service, o, "some",
                    IF br.kind = "ok" THEN Some(br.values) ELSE None,
                    IF Len(o.calls) < 2 THEN "-"
                    ELSE IF schKind = "ok" THEN "ok" ELSE "failed",
                    schedules[service])
    /\ IF o.raised # ""
       THEN pc' = "aborted" /\ i' = i
       ELSE pc' = "loop" /\ i' = i + 1
    /\ UNCHANGED <<repositories, override, dry_run, test, active_services,
                   in_development, cds, cat, run>>

\* Lines 398-399
Create ==
    /\ pc = "reconcile"
    /\ ~in_development
    /\ \E br \in BranchResponses, schKind \in RespKinds :
          \E postKind \in PostKinds(br) :
             Continue("create",
                      create_schedule(dry_run, schedules[service], br, schKind, postKind),
                      br, schKind)

\* Lines 400-401
Delete ==
    /\ pc = "reconcile"
    /\ in_development
    /\ \E br \in BranchResponses, schKind \in RespKinds, delKind \in RespKinds :
          Continue("delete",
                   delete_schedule(dry_run, schedules[service], br, schKind, delKind),
                   br, schKind)

\* Line 403
ServicesProcessed ==
    /\ pc = "loop"
    /\ i > Len(active_services)
    /\ pc' = "done"
    /\ last' = Step("end", "", Quiet(<<"Services processed.">>), "-", None, "-", <<>>)
    /\ UNCHANGED <<schedules, repositories, override, dry_run, test,
                   active_services, i, in_development, cds, cat, run>>

Next ==
    \/ lambda_handler
    \/ SkipOverridden
    \/ SkipNoPipelines
    \/ Classify
    \/ Create
    \/ Delete
    \/ ServicesProcessed

Spec == Init /\ [][Next]_vars

---------------------------------------------------------------------------
(* check_development_status on its own, for any list of pipelines *)

InitClassify ==
    /\ schedules = [r \in Repos |-> <<>>]
    /\ repositories = None
    /\ override = None
    /\ dry_run = FALSE
    /\ test = FALSE
    /\ active_services = <<>>
    /\ i = 0
    /\ pc = "idle"
    /\ in_development = FALSE
    /\ last = Step("none", "", Quiet(<<>>), "-", None, "-", <<>>)
    /\ cds = NoCds
    /\ cat = NoCat
    /\ run = NoRun

ClassifyAlone ==
    /\ cds = NoCds
    /\ \E pipelines \in SeqUpTo(PipelineRecords, MaxPipelines),
          tick \in 0..MaxTick, t \in BOOLEAN :
          LET todays == Todays(Len(pipelines), tick) IN
          cds' = [pipelines |-> pipelines, todays |-> todays, test |-> t,
                  result |-> check_development_status(pipelines, todays, t)]
    /\ UNCHANGED <<schedules, repositories, override, dry_run, test,
                   active_services, i, pc, in_development, last, cat, run>>

NextClassify == ClassifyAlone

SpecClassify == InitClassify /\ [][NextClassify]_vars

---------------------------------------------------------------------------
(* get_active_services, and lambda_handler for an event of any shape *)

\* service['attributes']['schema']['links'][k]['url']
Urls ==
    {"https://bitbucket.org/acme/svc-a", "https://bitbucket.org/acme/svc-b",
     "https://bitbucket.org/acme/workspace"}

\* url.split("/")
Split(url) ==
    CASE url = "https://bitbucket.org/acme/svc-a"
            -> <<"https:", "", "bitbucket.org", "acme", "svc-a">>
      [] url = "https://bitbucket.org/acme/svc-b"
            -> <<"https:", "", "bitbucket.org", "acme", "svc-b">>
      [] url = "https://bitbucket.org/acme/workspace"
            -> <<"https:", "", "bitbucket.org", "acme", "workspace">>

\* The service definitions of the catalog, each given by the urls of its links.
CatalogEntries ==
    {<<"https://bitbucket.org/acme/svc-a">>,
     <<"https://bitbucket.org/acme/workspace">>,
     <<"https://bitbucket.org/acme/svc-a", "https://bitbucket.org/acme/svc-b">>}

\* links[-1]['url'].split("/")[4]
Segment(links) == Split(links[Len(links)])[5]

\* The loop of lines 350-356 from the k-th service of the page on: what it
\* appends to services.
RECURSIVE Slugs(_, _)
Slugs(data, k) ==
    IF k > Len(data) THEN <<>>
    ELSE (IF Segment(data[k]) # "workspace" THEN <<Segment(data[k])>> ELSE <<>>)
            \o Slugs(data, k + 1)

\* What list_service_definitions can do: return a page, return an error
\* envelope, or raise (the call of line 341 is in no try block).
PageResponses ==
    {[kind |-> "ok", data |-> d] : d \in SeqUpTo(CatalogEntries, MaxCatalogEntries)}
        \cup {[kind |-> k, data |-> <<>>] : k \in {"errors", "raises"}}

\* The number of service definitions on the pages.
RECURSIVE Total(_)
Total(pages) == IF pages = <<>> THEN 0 ELSE Len(Head(pages)) + Total(Tail(pages))

\* event.get("repositories"): missing, empty or a list
RepoInputs == {None} \cup {Some(l) : l \in SeqUpTo(Repos, MaxRepoList)}

\* lambda_handler(event, _) up to the loop of process_services or, when
\* line 377 finds no repositories, up to the loop of get_active_services
\* (lines 413-425, 375-380, 330-339).
lambda_handler_event ==
    /\ pc = "idle"
    /\ \E repos \in RepoInputs, ov \in Overrides, d \in BOOLEAN, t \in BOOLEAN :
          /\ repositories' = repos
          /\ override' = ov
          /\ dry_run' = d
          /\ test' = t
          /\ IF ~Falsy(repos)
             THEN /\ active_services' = repos.val
                  /\ i' = 1
                  /\ pc' = "loop"
                  /\ last' = Step("start", "", Quiet(<<"Processing services...">>),
                                  "-", None, "-", <<>>)
             ELSE /\ active_services' = <<>>
                  /\ i' = 0
                  /\ pc' = "paging"
                  /\ last' = Step("start", "",
                                  Quiet(<<"Processing services...",
                                          "Retrieving active services...">>),
                                  "-", None, "-", <<>>)
    /\ cat' = NoCat
    /\ UNCHANGED <<schedules, in_development, cds, run>>

\* One iteration of the loop of lines 340-361; leaving the loop returns
\* services to line 380, which the loop of process_services then walks.
ListPage ==
    /\ pc = "paging"
    /\ \E response \in PageResponses :
          /\ Total(cat.seen) + Len(response.data) <= MaxCatalogEntries
          /\ LET asked == Append(cat.asked, cat.page)
                 services == cat.services \o Slugs(response.data, 1)
                 step(logs, raised) ==
                     Step("catalog", "", Outcome(<<"GET services">>, logs, raised,
                                                 NoneBranch, <<>>),
                          "-", None, "-", <<>>)
             IN  CASE response.kind = "raises" ->
                        /\ cat' = [cat EXCEPT !.asked = asked, !.stop = "raises"]
                        /\ pc' = "aborted"
                        /\ last' = step(<<>>, "Exception")
                        /\ UNCHANGED <<active_services, i>>
                   [] response.kind = "errors" ->
                        /\ cat' = [cat EXCEPT !.asked = asked, !.stop = "errors"]
                        /\ active_services' = cat.services
                        /\ i' = 1
                        /\ pc' = "loop"
                        /\ last' = step(<<"errors[0]">>, "")
                   [] response.kind = "ok" /\ response.data = <<>> ->
                        /\ cat' = [cat EXCEPT !.asked = asked, !.stop = "empty",
                                              !.seen = Append(@, response.data)]
                        /\ active_services' = services
                        /\ i' = 1
                        /\ pc' = "loop"
                        /\ last' = step(<<>>, "")
                   [] OTHER ->
                        /\ cat' = [cat EXCEPT !.asked = asked, !.services = services,
                                              !.seen = Append(@, response.data),
                                              !.page = @ + 1]
                        /\ last' = step(<<>>, "")
                        /\ UNCHANGED <<active_services, i, pc>>
    /\ UNCHANGED <<schedules, repositories, override, dry_run, test,
                   in_development, cds, run>>

InitCatalog == InitClassify

NextCatalog ==
    \/ lambda_handler_event
    \/ ListPage

SpecCatalog == InitCatalog /\ [][NextCatalog]_vars

---------------------------------------------------------------------------
(* Two invocations of lambda_handler with the same event, against a remote
   that answers every request and keeps its pipelines and branches *)

\* The time between the two invocations.
PassDelays == {0, WeekWindow}

\* What lines 390-396 make of one unchanged page of pipelines in the first
\* invocation and, delay later, in the second.
StableHistories ==
    {[skip |-> Falsy(Some(h)),
      first |-> IF Falsy(Some(h)) THEN FALSE
                ELSE check_development_status(h, Todays(Len(h), tick), FALSE),
      second |-> IF Falsy(Some(h)) THEN FALSE
                 ELSE check_development_status(h, TodaysLater(delay, Len(h), tick), FALSE)] :
        h \in Histories, tick \in 0..MaxTick, delay \in PassDelays}

\* Per repository: its pipelines as classified in either invocation, and the
\* answer to the branch query.
StableRemotes ==
    [Repos -> {[history |-> h, branches |-> b] : h \in StableHistories, b \in BranchLists}]

\* lambda_handler, first invocation: the event names the repositories, has no
\* override and neither dry_run nor test.
FirstPass ==
    /\ pc = "idle"
    /\ \E repos \in RepoLists, remote \in StableRemotes :
          /\ repositories' = Some(repos)
          /\ active_services' = repos
          /\ run' = [pass |-> 1, start |-> schedules, after |-> schedules,
                     remote |-> remote]
    /\ override' = None
    /\ dry_run' = FALSE
    /\ test' = FALSE
    /\ i' = 1
    /\ pc' = "loop"
    /\ last' = Step("start", "", Quiet(<<"Processing services...">>), "-", None, "-", <<>>)
    /\ UNCHANGED <<schedules, in_development, cds, cat>>

\* lambda_handler, second invocation, once the first has returned or raised.
SecondPass ==
    /\ pc \in {"done", "aborted"}
    /\ run.pass = 1
    /\ run' = [run EXCEPT !.pass = 2, !.after = schedules]
    /\ active_services' = repositories.val
    /\ i' = 1
    /\ pc' = "loop"
    /\ last' = Step("start", "", Quiet(<<"Processing services...">>), "-", None, "-", <<>>)
    /\ UNCHANGED <<schedules, repositories, override, dry_run, test,
                   in_development, cds, cat>>

\* Lines 383-394: the page of pipelines is empty.
StableSkip ==
    /\ InLoop
    /\ run.remote[service].history.skip
    /\ i' = i + 1
    /\ last' = Step("skipped", service,
                    Outcome(<<"GET pipelines">>,
                            <<"Processing service", "No pipelines found. Skipping...">>,
                            "", NoneBranch, <<>>),
                    "empty", None, "-", schedules[service])
    /\ UNCHANGED <<schedules, repositories, override, dry_run, test,
                   active_services, pc, in_development, cds, cat, run>>

\* Lines 383-396
StableClassify ==
    /\ InLoop
    /\ ~run.remote[service].history.skip
    /\ in_development' = IF run.pass = 1 THEN run.remote[service].history.first
                         ELSE run.remote[service].history.second
    /\ last' = Step("classified", service,
                    Outcome(<<"GET pipelines">>, <<"Processing service">>,
                            "", NoneBranch, <<>>),
                    "some", None, "-", schedules[service])
    /\ pc' = "reconcile"
    /\ UNCHANGED <<schedules, repositories, override, dry_run, test,
                   active_services, i, cds, cat, run>>

\* Lines 398-401
StableReconcile ==
    /\ pc = "reconcile"
    /\ LET br == [kind |-> "ok", values |-> run.remote[service].branches] IN
       IF in_development
       THEN Continue("delete",
                     delete_schedule(dry_run, schedules[service], br, "ok", "ok"),
                     br, "ok")
       ELSE Continue("create",
                     create_schedule(dry_run, schedules[service], br, "ok", "ok"),
                     br, "ok")

NextTwoPasses ==
    \/ FirstPass
    \/ StableSkip
    \/ StableClassify
    \/ StableReconcile
    \/ ServicesProcessed
    \/ SecondPass

SpecTwoPasses == Init /\ [][NextTwoPasses]_vars

---------------------------------------------------------------------------
(* Properties *)

\* A request that changes the remote schedules is among the calls.
Mutating(calls) ==
    \E k \in 1..Len(calls) : calls[k] \in {"POST schedule", "DELETE schedule"}

\* The list holds a schedule with the fixed cron pattern that targets branch.
ScheduleFor(list, branch) ==
    \E k \in 1..Len(list) :
        list[k].cron_pattern = SCHEDULE /\ list[k].pattern = branch

CountFor(list, branch) ==
    Cardinality({k \in 1..Len(list) :
                    list[k].cron_pattern = SCHEDULE /\ list[k].pattern = branch})

Logged(msg) == \E k \in 1..Len(last.logs) : last.logs[k] = msg

\* The last step was create_schedule or delete_schedule.
Reconciled == last.op \in {"create", "delete"}

\* Every lookup of the last step succeeded and the host accepted what the
\* step asked of it.
AllSucceeded ==
    /\ last.raised = ""
    /\ ~last.branches.none
    /\ last.fetched = "ok"
    /\ ~Logged("Failed to create scheduled pipeline")
    /\ ~Logged("Failed to delete scheduled pipeline")

\* C1 as claimed: after a pass without dry run has classified repository r
\* and create_schedule or delete_schedule has returned for it with r's default
\* branch resolved, a schedule with the fixed cron pattern for that branch
\* exists if and only if r was judged not in development.
C1_ScheduleIffNotInDevelopment ==
    (Reconciled /\ ~dry_run /\ last.raised = "" /\ last.branch # NoneBranch) =>
        (ScheduleFor(schedules[last.repo], last.branch) <=> ~in_development)

\* C1 as amended: the equivalence holds when the branch lookup and the
\* schedule listing succeeded and the host accepted the request sent, and,
\* for the deletion, when at most one such schedule existed before the step.
C1_ScheduleIffNotInDevelopmentOnSuccess ==
    (Reconciled /\ ~dry_run /\ AllSucceeded) =>
        /\ ~in_development => ScheduleFor(schedules[last.repo], last.branch)
        /\ (in_development /\ CountFor(last.before, last.branch) <= 1)
              => ~ScheduleFor(schedules[last.repo], last.branch)

C1_Witness ==
    /\ Reconciled /\ ~dry_run /\ AllSucceeded
    /\ in_development
    /\ CountFor(last.before, last.branch) = 1
    /\ ~ScheduleFor(schedules[last.repo], last.branch)

\* The pipelines of cds that line 248 finds recent.
RecentOnes ==
    {k \in 1..Len(cds.pipelines) :
        cds.todays[k] - cds.pipelines[k].created_on <= Window(cds.test)}

RECURSIVE Only(_, _, _)
Only(seq, S, k) ==
    IF k > Len(seq) THEN <<>>
    ELSE (IF k \in S THEN <<seq[k]>> ELSE <<>>) \o Only(seq, S, k + 1)

\* C2: check_development_status answers "in development" exactly when more
\* than one pipeline is within the window or one within the window was not
\* triggered by the schedule; the pipelines outside the window do not count.
C2_InDevelopmentIffRecentActivity ==
    /\ cds.result <=>
          \/ Cardinality(RecentOnes) > 1
          \/ \E k \in RecentOnes : cds.pipelines[k].trigger # "SCHEDULE"
    /\ cds.result =
          check_development_status(Only(cds.pipelines, RecentOnes, 1),
                                   Only(cds.todays, RecentOnes, 1), cds.test)

C2_Witness ==
    /\ Len(cds.pipelines) = 3
    /\ \A k \in 1..3 : cds.pipelines[k].trigger = "SCHEDULE"
    /\ Cardinality(RecentOnes) = 2
    /\ cds.result

\* C3: in a dry run no step sends a mutating request and no step changes the
\* remote schedules.
C3_DryRunMutatesNothing ==
    [][dry_run' => (schedules' = schedules /\ ~Mutating(last'.calls))]_vars

C3_Witness ==
    /\ dry_run
    /\ last.op = "create"
    /\ Logged("Eligible for Scheduling")
    /\ ~ScheduleFor(last.before, last.branch)

\* C4: no failure while one repository is processed aborts the run.
C4_RunNeverAborts == pc # "aborted"

\* C5: create_schedule without dry run, on a repository whose fetched schedule
\* list holds a schedule for the fixed cron pattern and the resolved default
\* branch, sends no mutating request, logs the conflict and changes nothing.
C5_CreateIsIdempotent ==
    (last.op = "create" /\ ~dry_run /\ last.fetched = "ok"
        /\ ScheduleFor(last.before, last.branch)) =>
        /\ ~Mutating(last.calls)
        /\ Logged("Failed to create scheduled pipeline: this schedule already exists.")
        /\ schedules[last.repo] = last.before
        /\ last.raised = ""

C5_Witness ==
    /\ last.op = "create" /\ ~dry_run /\ last.fetched = "ok"
    /\ ScheduleFor(last.before, last.branch)
    /\ last.branch = "master"

\* C6: delete_schedule on a repository without a schedule for the fixed cron
\* pattern and the default branch sends no mutating request and does not raise.
C6_DeleteWithoutMatchIsQuiet ==
    (last.op = "delete" /\ ~ScheduleFor(last.before, last.branch)) =>
        (~Mutating(last.calls) /\ last.raised = "")

\* C7: a repository whose build history is None or empty is skipped: only the
\* pipelines were requested, its schedules are unchanged and the loop goes on.
C7_NoHistoryIsSkipped ==
    (last.history \in {"None", "empty"}) =>
        /\ last.op = "skipped"
        /\ last.calls = <<"GET pipelines">>
        /\ schedules[last.repo] = last.before
        /\ pc = "loop"

C7_Witness ==
    /\ last.history = "None"
    /\ last.op = "skipped"
    /\ i = 2
    /\ Len(active_services) = 2

\* Some substring of the identifier is matched by the pattern.
SubstringMatches(pattern, slug) ==
    LET re == Compile(pattern)
        s == Chars(slug)
    IN \E a \in 1..(Len(s) + 1) : \E b \in (a - 1)..Len(s) :
          /\ b - a + 1 = Len(re.atoms)
          /\ \A k \in 1..Len(re.atoms) :
                re.atoms[k] = "." \/ re.atoms[k] = s[a + k - 1]
          /\ re.start => a = 1
          /\ re.end => b = Len(s)

C9_FailedLookupSendsNoMutation ==
    (Reconciled /\ (last.branches.none \/ last.fetched = "failed")) =>
        ~Mutating(last.calls)

\* C10: get_default_branch returns the first branch of the answer when there
\* is one, and None, without raising, when the answer is empty or the call
\* failed.
C10_DefaultBranchOrNone ==
    Reconciled =>
        /\ (~last.branches.none /\ last.branches.val # <<>>)
              => last.branch = last.branches.val[1]
        /\ (last.branches.none \/ last.branches.val = <<>>)
              => (last.branch = NoneBranch /\ last.raised # "IndexError")

\* The event names at least one repository.
ExplicitList == ~repositories.none /\ Len(repositories.val) > 0

\* C11: when the event names a non-empty repository list, the loop of
\* process_services starts at the head of exactly that list and no page of
\* the catalog was asked for; a page of the catalog is asked for only when the
\* list is missing or empty, and then the loop is not entered before one was.
C11_ExplicitListUsedVerbatim ==
    /\ (ExplicitList /\ pc # "idle") =>
          /\ pc = "loop" /\ i = 1
          /\ active_services = repositories.val
          /\ cat.asked = <<>>
    /\ cat.asked # <<>> => ~ExplicitList
    /\ (~ExplicitList /\ pc \in {"loop", "aborted"}) => cat.asked # <<>>

C11_Witness ==
    /\ pc = "loop"
    /\ repositories = Some(<<"svc-b", "svc-a">>)
    /\ active_services = <<"svc-b", "svc-a">>
    /\ cat.asked = <<>>

\* The slugs of the service definitions on the pages, in page order, without
\* those whose segment is "workspace".
RECURSIVE SlugsOfPages(_)
SlugsOfPages(pages) ==
    IF pages = <<>> THEN <<>>
    ELSE LET data == Head(pages)
             segments == [k \in 1..Len(data) |-> Split(data[k][Len(data[k])])[5]]
         IN SelectSeq(segments, LAMBDA x : x # "workspace") \o SlugsOfPages(Tail(pages))

\* C16: get_active_services asks for the pages 0, 1, 2, ... in this order,
\* goes on exactly while the pages it receives hold entries, never fails the
\* run, and at the first page that is empty or reports an error (an error
\* envelope or a failure to get the page) returns the slugs of the earlier
\* pages in page order, without the entries whose segment is "workspace".
C16_CatalogEnumeration ==
    /\ cat.asked = [k \in 1..Len(cat.asked) |-> k - 1]
    /\ pc # "aborted"
    /\ \A k \in 1..Len(cat.seen) :
          cat.seen[k] = <<>> => (k = Len(cat.seen) /\ cat.stop = "empty")
    /\ pc = "paging" =>
          (cat.stop = "" /\ Len(cat.seen) = Len(cat.asked) /\ cat.page = Len(cat.asked))
    /\ cat.stop # "" =>
          /\ pc = "loop" /\ i = 1
          /\ active_services = SlugsOfPages(cat.seen)

\* Every clock reading of the call was the same instant.
OneInstant == \A k \in 1..Len(cds.todays) : cds.todays[k] = Now

\* C12: evaluated at one instant and with one window,
\* check_development_status gives every reordering of the pipelines the
\* verdict it gave the list itself.
C12_VerdictIgnoresOrder ==
    OneInstant =>
        \A p \in Permutations(1..Len(cds.pipelines)) :
            check_development_status(
                [k \in 1..Len(cds.pipelines) |-> cds.pipelines[p[k]]],
                cds.todays, cds.test) = cds.result

C12_Witness ==
    /\ OneInstant
    /\ Len(cds.pipelines) = 3
    /\ ~cds.test
    /\ cds.pipelines[1].created_on = Now - 10081
    /\ cds.pipelines[2] = [created_on |-> Now - 2, trigger |-> "SCHEDULE"]
    /\ cds.pipelines[3] = [created_on |-> Now, trigger |-> "SCHEDULE"]
    /\ cds.result

\* C13: no step makes the number of schedules with the fixed cron pattern for
\* one branch of one repository grow, except from none to one.
C13_NoDuplicateCreated ==
    [][\A r \in Repos : \A b \in Branches \cup {NoneBranch} :
          CountFor(schedules'[r], b) <=
              (IF CountFor(schedules[r], b) = 0 THEN 1 ELSE CountFor(schedules[r], b))]_vars

C13_Witness ==
    /\ last.op = "create" /\ ~dry_run
    /\ Mutating(last.calls)
    /\ Len(last.before) = 1
    /\ CountFor(last.before, last.branch) = 0
    /\ CountFor(schedules[last.repo], last.branch) = 1
    /\ Len(schedules[last.repo]) = 2

\* The uuids of the schedules of the list with the fixed cron pattern for the
\* branch, in list order.
UuidsFor(list, branch) ==
    LET hits == SelectSeq(list, LAMBDA s : s.cron_pattern = SCHEDULE /\ s.pattern = branch)
    IN [k \in 1..Len(hits) |-> hits[k].uuid]

DeletesSent == Cardinality({k \in 1..Len(last.calls) : last.calls[k] = "DELETE schedule"})

\* C14: delete_schedule without dry run sends at most one DELETE; it names
\* the first schedule of the fetched list with the fixed cron pattern for the
\* resolved default branch; accepted, it removes that schedule and no other;
\* refused, it removes none and no second DELETE follows: the other
\* schedules for that branch are still there after the step.
C14_DeletesFirstMatchOnly ==
    (last.op = "delete" /\ ~dry_run) =>
        /\ DeletesSent <= 1
        /\ DeletesSent = 1 =>
              /\ last.fetched = "ok"
              /\ UuidsFor(last.before, last.branch) # <<>>
              /\ last.target = Head(UuidsFor(last.before, last.branch))
              /\ \/ schedules[last.repo] = last.before
                 \/ schedules[last.repo] =
                        SelectSeq(last.before, LAMBDA s : s.uuid # last.target)
              /\ UuidsFor(schedules[last.repo], last.branch) \in
                    {UuidsFor(last.before, last.branch),
                     Tail(UuidsFor(last.before, last.branch))}
        /\ DeletesSent = 0 => schedules[last.repo] = last.before
        /\ (last.fetched = "ok" /\ UuidsFor(last.before, last.branch) # <<>>)
              => DeletesSent = 1

C14_Witness ==
    /\ last.op = "delete" /\ ~dry_run
    /\ DeletesSent = 1
    /\ Len(UuidsFor(last.before, last.branch)) = 2
    /\ last.target = 1
    /\ UuidsFor(schedules[last.repo], last.branch) = <<2>>

\* C15 as claimed: create_schedule in a dry run that resolved the branch and
\* fetched the schedule list logs the eligibility, whatever the list holds.
C15_DryRunCreateAlwaysEligible ==
    (last.op = "create" /\ dry_run /\ last.raised = "" /\ last.fetched = "ok") =>
        Logged("Eligible for Scheduling")

\* C15 as amended: create_schedule looks for the schedule before it tests
\* dry_run: in a dry run it logs the eligibility exactly when the fetched list
\* holds no schedule with the fixed cron pattern for the resolved default
\* branch, and logs the conflict when it holds one; it sends no mutating
\* request either way.
C15_DryRunCreateChecksDuplicatesFirst ==
    (last.op = "create" /\ dry_run /\ last.raised = "" /\ last.fetched = "ok") =>
        /\ Logged("Eligible for Scheduling") <=> ~ScheduleFor(last.before, last.branch)
        /\ Logged("Failed to create scheduled pipeline: this schedule already exists.")
              <=> ScheduleFor(last.before, last.branch)
        /\ ~Mutating(last.calls)
        /\ schedules[last.repo] = last.before

C15_Witness ==
    /\ last.op = "create" /\ dry_run /\ last.raised = "" /\ last.fetched = "ok"
    /\ ScheduleFor(last.before, last.branch)
    /\ Logged("Failed to create scheduled pipeline: this schedule already exists.")
    /\ ~Logged("Eligible for Scheduling")

\* The pipelines of cds are the weekly runs of the schedule and nothing else:
\* all triggered by the schedule, newest first, one week apart.
OnlyWeeklyScheduled ==
    /\ \A k \in 1..Len(cds.pipelines) : cds.pipelines[k].trigger = "SCHEDULE"
    /\ \A k \in 1..(Len(cds.pipelines) - 1) :
          cds.pipelines[k].created_on - cds.pipelines[k + 1].created_on = WeekWindow

\* C17: a repository whose only pipelines are the weekly runs of the schedule
\* is judged not in development whenever check_development_status is called.
C17_OwnScheduleIsNotDevelopment ==
    OnlyWeeklyScheduled => ~cds.result

\* C18: a step for repository r leaves the schedules of every other
\* repository as they are, and leaves in r's list, unaltered, every schedule
\* whose cron pattern is not the fixed one or whose target is not the default
\* branch the step resolved.
C18_FrameOfAStep ==
    [][\A r \in Repos :
          /\ r # last'.repo => schedules'[r] = schedules[r]
          /\ \A k \in 1..Len(schedules[r]) :
                (schedules[r][k].cron_pattern # SCHEDULE
                    \/ schedules[r][k].pattern # last'.branch)
                  => \E j \in 1..Len(schedules'[r]) : schedules'[r][j] = schedules[r][k]]_vars

C18_Witness ==
    /\ last.op = "delete" /\ ~dry_run
    /\ Len(last.before) = 2
    /\ Len(schedules[last.repo]) = 1
    /\ schedules[last.repo][1].cron_pattern = OTHER_CRON
    /\ last.target # 0

\* Before the first pass no repository held two schedules with the fixed cron
\* pattern for one branch.
AtMostOneBefore ==
    \A r \in Repos : \A b \in Branches : CountFor(run.start[r], b) <= 1

\* C19 as claimed: with at most one matching schedule per repository before
\* the first pass, no step of the second pass sends a mutating request and
\* the schedules stay as the first pass left them.
C19_SecondPassChangesNothing ==
    (run.pass = 2 /\ AtMostOneBefore) =>
        (~Mutating(last.calls) /\ schedules = run.after)

\* Both passes classify every repository of the list alike.
SameVerdicts ==
    \A k \in 1..Len(active_services) :
        LET h == run.remote[active_services[k]].history IN h.first = h.second

\* C19 as amended: the same, when moreover every repository of the list gets
\* the same verdict in both passes.
C19_SecondPassChangesNothingWhenVerdictsStay ==
    (run.pass = 2 /\ AtMostOneBefore /\ SameVerdicts) =>
        (~Mutating(last.calls) /\ schedules = run.after)

C19_Witness ==
    /\ run.pass = 2 /\ AtMostOneBefore /\ SameVerdicts
    /\ pc = "done"
    /\ run.after # run.start
    /\ Len(active_services) = 2
    /\ active_services[1] # active_services[2]
    /\ run.remote[active_services[1]].history.first
    /\ ~run.remote[active_services[2]].history.first
    /\ ~run.remote[active_services[2]].history.skip

====
